---- MODULE Spec2Model ----
\* shn2xml: conversion of a decoded SHN file to an XML event stream.
\* Model of src/src/main.rs: the driver (main), encoding lookup, the XML
\* serializer and the text formatters.
EXTENDS Integers, Sequences, FiniteSets, TLC

VARIABLES
    pc,         \* position of the single thread of control
    args,       \* docopt's ArgvMap: option/positional name -> value
    input,      \* the input stream main holds (None, "stdin" or a file)
    output,     \* the output stream main holds (None, "stdout" or a file)
    encoding,   \* the EncodingRef get_encoding returned (None before)
    shn_file,   \* the ShnFile the decoder returned (None before)
    idx,        \* loop index of the column loop / the row loop
    log,        \* every EventWriter::write call so far: the event and its Result
    trace,      \* the calls main has made so far, in order
    panic,      \* "" while running, the panic message once the thread panicked
    call        \* a function called on its own: its argument and its result

vars == <<pc, args, input, output, encoding, shn_file, idx, log, trace, panic, call>>

\* Option::None, and the value of a binding that does not exist yet.
None == "none"

NoValue == [none |-> TRUE]

----------------------------------------------------------------------------
\* Bounds of the model.

MaxCols == 2          \* columns per schema
MaxRows == 2          \* rows per file
MaxFailures == 1      \* failing writes of the output stream per run
MaxHeaderLen == 3     \* bytes handed to bytes_to_string on its own
WordBits == 16        \* width of the machine word (usize) in the model

SeqsUpTo(S, n) == UNION {[1..k -> S] : k \in 0..n}

----------------------------------------------------------------------------
\* Text. A String is a sequence of one-character strings.

Digits == <<"0", "1", "2", "3", "4", "5", "6", "7", "8", "9">>

HexDigits == Digits \o <<"a", "b", "c", "d", "e", "f">>

\* u8::to_string .. u32::to_string: base 10, no leading zeros.
RECURSIVE unsigned_to_string(_)
unsigned_to_string(n) ==
    IF n < 10 THEN <<Digits[n + 1]>>
    ELSE unsigned_to_string(n \div 10) \o <<Digits[(n % 10) + 1]>>

\* i8::to_string .. i32::to_string: a sign only for negative values.
signed_to_string(n) ==
    IF n < 0 THEN <<"-">> \o unsigned_to_string(0 - n) ELSE unsigned_to_string(n)

\* f32::to_string of a value given in halves (h stands for h/2).
float_to_string(h) ==
    LET a == IF h < 0 THEN 0 - h ELSE h
        sign == IF h < 0 THEN <<"-">> ELSE <<>>
    IN  IF a % 2 = 0 THEN sign \o unsigned_to_string(a \div 2)
        ELSE sign \o unsigned_to_string(a \div 2) \o <<".", "5">>

\* format!("{:x}", b) of a u8: lowercase hexadecimal, no padding.
format_x(b) ==
    IF b < 16 THEN <<HexDigits[b + 1]>>
    ELSE <<HexDigits[(b \div 16) + 1], HexDigits[(b % 16) + 1]>>

----------------------------------------------------------------------------
\* shn::ShnDataType, shn::ShnCell, shn::ShnColumn, shn::ShnFile.

ShnDataType ==
    {"StringFixedLen", "StringZeroTerminated", "Byte", "SignedByte",
     "UnsignedShort", "SignedShort", "UnsignedInteger", "SignedInteger",
     "SingleFloatingPoint"}

\* Two payloads of each cell variant.
CellSamples ==
    [t \in ShnDataType |->
        CASE t = "StringFixedLen"       -> << <<"a", "b">>, <<>> >>
          [] t = "StringZeroTerminated" -> << <<"x">>, <<"y", " ", "z">> >>
          [] t = "Byte"                 -> <<0, 255>>
          [] t = "SignedByte"           -> <<-128, 127>>
          [] t = "UnsignedShort"        -> <<65535, 10>>
          [] t = "SignedShort"          -> <<-32768, 7>>
          [] t = "UnsignedInteger"      -> <<42, 7>>
          [] t = "SignedInteger"        -> <<-1, 100000>>
          [] t = "SingleFloatingPoint"  -> <<3, -4>>]

ShnCell(t, v) == [variant |-> t, value |-> v]

ColNames == {"id", "nm", "hp"}

ShnColumn == [name : ColNames, data_type : ShnDataType]

\* The columns the decoded files of the model are built from.
SchemaColumns ==
    {[name |-> "id", data_type |-> "UnsignedInteger"],
     [name |-> "nm", data_type |-> "StringZeroTerminated"],
     [name |-> "hp", data_type |-> "SignedShort"]}

\* A row of the schema: cell i carries the variant of column i.
SampleRow(columns, k) ==
    [i \in 1..Len(columns) |->
        ShnCell(columns[i].data_type, CellSamples[columns[i].data_type][k])]

ShnRows(columns) == SeqsUpTo({[data |-> SampleRow(columns, k)] : k \in 1..2}, MaxRows)

HeaderBytes == {0, 10, 26, 255}

\* crypt_header as the decoder fills it: a fixed number of bytes, never none.
FileHeaders == {<<0, 26>>}

ShnFile ==
    UNION {[crypt_header : FileHeaders,
            schema : {[columns |-> cols]},
            data : ShnRows(cols)] : cols \in SeqsUpTo(SchemaColumns, MaxCols)}

----------------------------------------------------------------------------
\* The formatters.

\* type_to_str with the token of the signed short given to the unsigned one too.
type_to_str_swapped(t) ==
    CASE t = "StringFixedLen"       -> "StringFL"
      [] t = "StringZeroTerminated" -> "StringSZ"
      [] t = "Byte"                 -> "u8"
      [] t = "SignedByte"           -> "i8"
      [] t = "UnsignedShort"        -> "i16"
      [] t = "SignedShort"          -> "i16"
      [] t = "UnsignedInteger"      -> "u32"
      [] t = "SignedInteger"        -> "i32"
      [] t = "SingleFloatingPoint"  -> "f32"

type_to_str(t) ==
    CASE t = "StringFixedLen"       -> "StringFL"
      [] t = "StringZeroTerminated" -> "StringSZ"
      [] t = "Byte"                 -> "u8"
      [] t = "SignedByte"           -> "i8"
      [] t = "UnsignedShort"        -> "u16"
      [] t = "SignedShort"          -> "i16"
      [] t = "UnsignedInteger"      -> "u32"
      [] t = "SignedInteger"        -> "i32"
      [] t = "SingleFloatingPoint"  -> "f32"

cell_to_str(cell) ==
    CASE cell.variant = "StringFixedLen"       -> cell.value
      [] cell.variant = "StringZeroTerminated" -> cell.value
      [] cell.variant = "Byte"                 -> unsigned_to_string(cell.value)
      [] cell.variant = "SignedByte"           -> signed_to_string(cell.value)
      [] cell.variant = "UnsignedShort"        -> unsigned_to_string(cell.value)
      [] cell.variant = "SignedShort"          -> signed_to_string(cell.value)
      [] cell.variant = "UnsignedInteger"      -> unsigned_to_string(cell.value)
      [] cell.variant = "SignedInteger"        -> signed_to_string(cell.value)
      [] cell.variant = "SingleFloatingPoint"  -> float_to_string(cell.value)

\* A function's outcome: the value it returns, or the message it panics with.
Returned(v) == [panic |-> "", value |-> v]

Panicked(msg) == [panic |-> msg, value |-> <<>>]

UsizeMax == (2 ^ WordBits) - 1

IsizeMax == (2 ^ (WordBits - 1)) - 1

\* (bytes.len() * 3) - 1 on usize: with overflow checks the subtraction panics
\* below zero, without them it wraps.
capacity(len, overflow_checks) ==
    IF len * 3 >= 1 THEN Returned((len * 3) - 1)
    ELSE IF overflow_checks THEN Panicked("attempt to subtract with overflow")
    ELSE Returned(((len * 3) - 1) % (UsizeMax + 1))

\* String::with_capacity: a capacity above isize::MAX panics.
with_capacity(cap) ==
    IF cap > IsizeMax THEN Panicked("capacity overflow") ELSE Returned(<<>>)

\* The loop of bytes_to_string from index i (1-based) on, s the string so far.
RECURSIVE push_bytes(_, _, _)
push_bytes(bytes, i, s) ==
    IF i > Len(bytes) THEN s
    ELSE push_bytes(bytes, i + 1,
                    (IF i > 1 THEN Append(s, " ") ELSE s) \o format_x(bytes[i]))

bytes_to_string(bytes, overflow_checks) ==
    LET cap == capacity(Len(bytes), overflow_checks)
    IN  IF cap.panic # "" THEN cap
        ELSE LET s == with_capacity(cap.value)
             IN  IF s.panic # "" THEN s
                 ELSE Returned(push_bytes(bytes, 1, s.value))

----------------------------------------------------------------------------
\* The command line (USAGE) as docopt parses it.

InputPaths == {"in.shn"}

OutputPaths == {"out.xml"}

EncodingNames == {"", "ascii", "utf-8", "ASCII", "latin9"}

\* (--stdin | <input>) (--stdout | <output>): a flag or a path, never both.
ArgvMap ==
    {("--encoding" :> e) @@ ("--stdin" :> i[1]) @@ ("<input>" :> i[2])
        @@ ("--stdout" :> o[1]) @@ ("<output>" :> o[2]) :
        e \in EncodingNames,
        i \in {<<TRUE, "">>} \cup {<<FALSE, p>> : p \in InputPaths},
        o \in {<<TRUE, "">>} \cup {<<FALSE, p>> : p \in OutputPaths}}

\* ArgvMap::get_bool, ArgvMap::get_str: a key the usage does not define
\* reads as false, as the empty string.
get_bool(a, key) == IF key \in DOMAIN a THEN a[key] ELSE FALSE

get_str(a, key) == IF key \in DOMAIN a THEN a[key] ELSE ""

\* encoding::all::encodings(): names of registered encodings, in order.
encodings == <<"error", "ascii", "ibm866", "utf-8">>

EncodingRef(i) == [name |-> encodings[i], slot |-> i]

DEFAULT_ENCODING == "ascii"

\* The for loop of get_encoding from position i on.
RECURSIVE find_encoding(_, _)
find_encoding(i, encoding_name) ==
    IF i > Len(encodings) THEN Panicked("Encoding not found")
    ELSE IF EncodingRef(i).name = encoding_name THEN Returned(EncodingRef(i))
    ELSE find_encoding(i + 1, encoding_name)

\* get_encoding without the substitution of the default name.
get_encoding_no_default(a) == find_encoding(1, get_str(a, "--encoding"))

get_encoding(a) ==
    LET name == get_str(a, "--encoding")
        encoding_name == IF name = "" THEN DEFAULT_ENCODING ELSE name
    IN  find_encoding(1, encoding_name)

----------------------------------------------------------------------------
\* Streams and the file system.

NoStream == [kind |-> None, path |-> ""]

Std(kind) == [kind |-> kind, path |-> ""]

File(path) == [kind |-> "file", path |-> path]

Called(name, arg, ok) == [call |-> name, arg |-> arg, ok |-> ok]

\* File::open: the file system decides; the empty path names no file.
open_file(path, exists) ==
    IF exists /\ path # "" THEN Returned(File(path))
    ELSE Panicked("Could not open file")

\* OpenOptions::new().write(true).create(true).open(path), likewise.
create_file(path, creatable) ==
    IF creatable /\ path # "" THEN Returned(File(path))
    ELSE Panicked("Could not create file")

----------------------------------------------------------------------------
\* main.

\* let input = ...
main_input ==
    /\ pc = "main_input"
    /\ IF get_bool(args, "--stdin")
       THEN /\ input' = Std("stdin")
            /\ pc' = "main_output"
            /\ UNCHANGED <<trace, panic>>
       ELSE \E exists \in BOOLEAN :
            LET path == get_str(args, "<input>")
                r == open_file(path, exists)
            IN  /\ trace' = Append(trace, Called("open_file", path, r.panic = ""))
                /\ panic' = r.panic
                /\ input' = IF r.panic = "" THEN r.value ELSE input
                /\ pc' = IF r.panic = "" THEN "main_output" ELSE "panicked"
    /\ UNCHANGED <<args, output, encoding, shn_file, idx, log, call>>

\* main's output step going on after a failed create_file.
main_output_continues ==
    /\ pc = "main_output"
    /\ IF get_bool(args, "--stdout")
       THEN /\ output' = Std("stdout")
            /\ UNCHANGED trace
       ELSE \E creatable \in BOOLEAN :
            LET path == get_str(args, "<output")
                r == create_file(path, creatable)
            IN  /\ trace' = Append(trace, Called("create_file", path, r.panic = ""))
                /\ output' = IF r.panic = "" THEN r.value ELSE Std("stdout")
    /\ pc' = "main_encoding"
    /\ UNCHANGED <<args, input, encoding, shn_file, idx, log, panic, call>>

\* let output = ...
main_output ==
    /\ pc = "main_output"
    /\ IF get_bool(args, "--stdout")
       THEN /\ output' = Std("stdout")
            /\ pc' = "main_encoding"
            /\ UNCHANGED <<trace, panic>>
       ELSE \E creatable \in BOOLEAN :
            LET path == get_str(args, "<output")
                r == create_file(path, creatable)
            IN  /\ trace' = Append(trace, Called("create_file", path, r.panic = ""))
                /\ panic' = r.panic
                /\ output' = IF r.panic = "" THEN r.value ELSE output
                /\ pc' = IF r.panic = "" THEN "main_encoding" ELSE "panicked"
    /\ UNCHANGED <<args, input, encoding, shn_file, idx, log, call>>

\* let encoding = get_encoding(&args);
main_encoding ==
    /\ pc = "main_encoding"
    /\ LET r == get_encoding(args)
       IN  /\ trace' = Append(trace,
                   Called("get_encoding", get_str(args, "--encoding"), r.panic = ""))
           /\ panic' = r.panic
           /\ encoding' = IF r.panic = "" THEN r.value ELSE encoding
           /\ pc' = IF r.panic = "" THEN "main_decode" ELSE "panicked"
    /\ UNCHANGED <<args, input, output, shn_file, idx, log, call>>

\* let shn_file = match shn::ShnReader::read_from(input, &encoding) ...
main_decode ==
    /\ pc = "main_decode"
    /\ \/ \E f \in ShnFile :
            /\ shn_file' = f
            /\ trace' = Append(trace, Called("read_from", input.path, TRUE))
            /\ pc' = "write_to_xml"
            /\ panic' = panic
       \/ /\ trace' = Append(trace, Called("read_from", input.path, FALSE))
          /\ panic' = "Could not read SHN file"
          /\ pc' = "panicked"
          /\ shn_file' = shn_file
    /\ UNCHANGED <<args, input, output, encoding, idx, log, call>>

----------------------------------------------------------------------------
\* The XML writer (xml::EventWriter over the output stream).

Attribute(name, value) == [name |-> name, value |-> value]

StartElement(name, attributes) ==
    [kind |-> "StartElement", name |-> name, attributes |-> attributes]

\* XmlEvent::EndElement { name: None }: closes the innermost open element.
EndElement == [kind |-> "EndElement", name |-> None, attributes |-> <<>>]

Failed(l) == {i \in 1..Len(l) : ~l[i].ok}

\* The Results a write may give: the stream fails at most MaxFailures times.
Results(l) == IF Cardinality(Failed(l)) < MaxFailures THEN BOOLEAN ELSE {TRUE}

\* EventWriter::write(event) giving Ok (the event is written) or Err.
write(l, event, ok) == Append(l, [event |-> event, ok |-> ok])

\* The events on the output stream.
Written(l) ==
    LET ok == SelectSeq(l, LAMBDA w : w.ok)
    IN  [i \in 1..Len(ok) |-> ok[i].event]

----------------------------------------------------------------------------
\* The serializer.

\* write_column without its EndElement.
write_column_unclosed(column, l, ok1, ok2) ==
    LET attributes == <<Attribute("name", column.name),
                        Attribute("type", type_to_str(column.data_type))>>
    IN  write(l, StartElement("shncolumn", attributes), ok1)

\* write_column: both Results are dropped by .ok().
write_column(column, l, ok1, ok2) ==
    LET attributes == <<Attribute("name", column.name),
                        Attribute("type", type_to_str(column.data_type))>>
    IN  write(write(l, StartElement("shncolumn", attributes), ok1), EndElement, ok2)

\* The attrs loop putting each new attribute in front.
RECURSIVE push_attrs_front(_, _, _, _)
push_attrs_front(row, file, i, attrs) ==
    IF i > Len(file.schema.columns) THEN Returned(attrs)
    ELSE IF i > Len(row.data) THEN Panicked("called Option::unwrap() on a None value")
    ELSE LET col == file.schema.columns[i]
             cell == row.data[i]
             cell_value == cell_to_str(cell)
         IN  push_attrs_front(row, file, i + 1,
                              <<Attribute(col.name, cell_value)>> \o attrs)

\* The attrs loop of write_row_to_xml from index i (1-based) on.
RECURSIVE push_attrs(_, _, _, _)
push_attrs(row, file, i, attrs) ==
    IF i > Len(file.schema.columns) THEN Returned(attrs)
    ELSE IF i > Len(row.data) THEN Panicked("called Option::unwrap() on a None value")
    ELSE LET col == file.schema.columns[i]
             cell == row.data[i]
             cell_value == cell_to_str(cell)
         IN  push_attrs(row, file, i + 1, Append(attrs, Attribute(col.name, cell_value)))

\* write_row_to_xml: both Results are unwrapped; ok2 is read only after ok1.
\* Gives the log and the panic message ("" when it returns).
write_row_to_xml(row, file, l, ok1, ok2) ==
    LET attrs == push_attrs(row, file, 1, <<>>)
        unwrap == "called Result::unwrap() on an Err value"
    IN  IF attrs.panic # "" THEN [log |-> l, panic |-> attrs.panic]
        ELSE LET l1 == write(l, StartElement("row", attrs.value), ok1)
             IN  IF ~ok1 THEN [log |-> l1, panic |-> unwrap]
                 ELSE [log |-> write(l1, EndElement, ok2),
                       panic |-> IF ok2 THEN "" ELSE unwrap]

\* write_to_xml up to the call of write_shn_schema_to_xml.
write_to_xml ==
    /\ pc = "write_to_xml"
    /\ trace' = Append(trace, Called("write_to_xml", output.path, TRUE))
    /\ \E ok \in Results(log) :
          log' = write(log, StartElement("shnfile", <<>>), ok)
    /\ pc' = "write_shn_schema_to_xml"
    /\ UNCHANGED <<args, input, output, encoding, shn_file, idx, panic, call>>

\* write_shn_schema_to_xml up to the column loop.
write_shn_schema_to_xml ==
    /\ pc = "write_shn_schema_to_xml"
    /\ \E overflow_checks \in BOOLEAN :
       LET s == bytes_to_string(shn_file.crypt_header, overflow_checks)
       IN  IF s.panic # ""
           THEN /\ panic' = s.panic
                /\ pc' = "panicked"
                /\ trace' = [trace EXCEPT ![Len(trace)].ok = FALSE]
                /\ UNCHANGED <<idx, log>>
           ELSE /\ \E ok \in Results(log) :
                      log' = write(log,
                          StartElement("schema", <<Attribute("cryptheader", s.value)>>), ok)
                /\ idx' = 1
                /\ pc' = "schema_columns"
                /\ UNCHANGED <<panic, trace>>
    /\ UNCHANGED <<args, input, output, encoding, shn_file, call>>

\* One turn of the column loop of write_shn_schema_to_xml.
schema_column ==
    /\ pc = "schema_columns"
    /\ idx <= Len(shn_file.schema.columns)
    /\ \E ok1 \in Results(log) :
       \E ok2 \in Results(write(log, EndElement, ok1)) :
          log' = write_column(shn_file.schema.columns[idx], log, ok1, ok2)
    /\ idx' = idx + 1
    /\ UNCHANGED <<pc, args, input, output, encoding, shn_file, trace, panic, call>>

\* The end of write_shn_schema_to_xml: the schema end-tag.
schema_end ==
    /\ pc = "schema_columns"
    /\ idx > Len(shn_file.schema.columns)
    /\ \E ok \in Results(log) : log' = write(log, EndElement, ok)
    /\ idx' = 1
    /\ pc' = "write_shn_data_to_xml"
    /\ UNCHANGED <<args, input, output, encoding, shn_file, trace, panic, call>>

\* One turn of the row loop of write_shn_data_to_xml.
data_row ==
    /\ pc = "write_shn_data_to_xml"
    /\ idx <= Len(shn_file.data)
    /\ \E ok1 \in Results(log) :
       \E ok2 \in Results(write(log, EndElement, ok1)) :
       LET r == write_row_to_xml(shn_file.data[idx], shn_file, log, ok1, ok2)
       IN  /\ log' = r.log
           /\ panic' = r.panic
           /\ pc' = IF r.panic = "" THEN pc ELSE "panicked"
           /\ trace' = IF r.panic = "" THEN trace
                       ELSE [trace EXCEPT ![Len(trace)].ok = FALSE]
    /\ idx' = idx + 1
    /\ UNCHANGED <<args, input, output, encoding, shn_file, call>>

\* The end of write_to_xml: the root end-tag, then main returns.
write_to_xml_end ==
    /\ pc = "write_shn_data_to_xml"
    /\ idx > Len(shn_file.data)
    /\ \E ok \in Results(log) : log' = write(log, EndElement, ok)
    /\ pc' = "done"
    /\ UNCHANGED <<args, input, output, encoding, shn_file, idx, trace, panic, call>>

----------------------------------------------------------------------------
\* A function called on its own, outside a run of main.

NoCall == [fn |-> None, arg |-> <<>>, returned |-> FALSE, result |-> Returned(<<>>)]

Call(fn, arg) == [fn |-> fn, arg |-> arg, returned |-> FALSE, result |-> Returned(<<>>)]

\* bytes_to_string(bytes) called and returning or panicking.
call_bytes_to_string ==
    /\ pc = "bytes_to_string"
    /\ \E overflow_checks \in BOOLEAN :
       LET r == bytes_to_string(call.arg, overflow_checks)
       IN  /\ call' = [call EXCEPT !.returned = TRUE, !.result = r]
           /\ panic' = r.panic
           /\ pc' = IF r.panic = "" THEN "returned" ELSE "panicked"
    /\ UNCHANGED <<args, input, output, encoding, shn_file, idx, log, trace>>

\* write_column(column, output) called on a fresh writer and returning.
call_write_column ==
    /\ pc = "write_column"
    /\ \E ok1 \in Results(log) :
       \E ok2 \in Results(write(log, EndElement, ok1)) :
          log' = write_column(call.arg, log, ok1, ok2)
    /\ call' = [call EXCEPT !.returned = TRUE]
    /\ pc' = "returned"
    /\ UNCHANGED <<args, input, output, encoding, shn_file, idx, trace, panic>>

----------------------------------------------------------------------------
\* The program: one run of main.

Init ==
    /\ pc = "main_input"
    /\ args \in ArgvMap
    /\ input = NoStream
    /\ output = NoStream
    /\ encoding = NoValue
    /\ shn_file = NoValue
    /\ idx = 1
    /\ log = <<>>
    /\ trace = <<>>
    /\ panic = ""
    /\ call = NoCall

Next ==
    \/ main_input
    \/ main_output
    \/ main_encoding
    \/ main_decode
    \/ write_to_xml
    \/ write_shn_schema_to_xml
    \/ schema_column
    \/ schema_end
    \/ data_row
    \/ write_to_xml_end

Spec == Init /\ [][Next]_vars

\* bytes_to_string on every byte sequence up to MaxHeaderLen bytes.
InitBytes ==
    /\ pc = "bytes_to_string"
    /\ call \in {Call("bytes_to_string", b) : b \in SeqsUpTo(HeaderBytes, MaxHeaderLen)}
    /\ args \in {a \in ArgvMap : a["--stdin"] /\ a["--stdout"] /\ a["--encoding"] = ""}
    /\ input = NoStream
    /\ output = NoStream
    /\ encoding = NoValue
    /\ shn_file = NoValue
    /\ idx = 1
    /\ log = <<>>
    /\ trace = <<>>
    /\ panic = ""

NextBytes == call_bytes_to_string

SpecBytes == InitBytes /\ [][NextBytes]_vars

\* write_column on every column.
InitColumn ==
    /\ pc = "write_column"
    /\ call \in {Call("write_column", c) : c \in ShnColumn}
    /\ args \in {a \in ArgvMap : a["--stdin"] /\ a["--stdout"] /\ a["--encoding"] = ""}
    /\ input = NoStream
    /\ output = Std("stdout")
    /\ encoding = NoValue
    /\ shn_file = NoValue
    /\ idx = 1
    /\ log = <<>>
    /\ trace = <<>>
    /\ panic = ""

NextColumn == call_write_column

SpecColumn == InitColumn /\ [][NextColumn]_vars

----------------------------------------------------------------------------
\* Properties.

Calls(name) == {i \in 1..Len(trace) : trace[i].call = name}

\* C1: for N >= 1 header bytes bytes_to_string returns two lowercase hex
\* digits per byte (zero-padded below 0x10), joined by single spaces, so a
\* string of length 3*N - 1.
C1_TwoHexDigitsPerByte ==
    (call.fn = "bytes_to_string" /\ call.returned /\ Len(call.arg) >= 1) =>
        /\ call.result.panic = ""
        /\ Len(call.result.value) = (3 * Len(call.arg)) - 1
        /\ \A i \in 1..Len(call.arg) :
              /\ call.result.value[(3 * i) - 2] = HexDigits[(call.arg[i] \div 16) + 1]
              /\ call.result.value[(3 * i) - 1] = HexDigits[(call.arg[i] % 16) + 1]
              /\ i < Len(call.arg) => call.result.value[3 * i] = " "

\* C2: a failed write is the last write of the run and the run ends in an
\* error: nothing is written after it and the run does not succeed.
C2_WriteFailureAborts ==
    \A i \in Failed(log) : i = Len(log) /\ panic # ""

\* C3: when get_encoding finds no encoding, no file has been opened or
\* created before.
C3_NoIoBeforeEncodingFailure ==
    panic = "Encoding not found" =>
        /\ Calls("open_file") = {}
        /\ Calls("create_file") = {}

\* C4: without --stdout, create_file is called with the <output> argument
\* and the document is written to that file.
C4_OutputPathIsArgument ==
    /\ \A i \in Calls("create_file") : trace[i].arg = args["<output>"]
    /\ (pc = "done" /\ ~args["--stdout"]) => output = File(args["<output>"])

RowWrites == SelectSeq(log, LAMBDA w : w.event.kind = "StartElement" /\ w.event.name = "row")

\* C5: the k-th row element carries one attribute per schema column, the
\* i-th named after column i and valued cell_to_str of cell i of row k.
C5_RowAttributesInSchemaOrder ==
    \A k \in 1..Len(RowWrites) :
        LET attributes == RowWrites[k].event.attributes
            columns == shn_file.schema.columns
            row == shn_file.data[k]
        IN  /\ Len(row.data) = Len(columns)
            /\ Len(attributes) = Len(columns)
            /\ \A i \in 1..Len(columns) :
                  /\ attributes[i].name = columns[i].name
                  /\ attributes[i].value = cell_to_str(row.data[i])

C5_Witness ==
    /\ Len(RowWrites) = 2
    /\ Len(shn_file.schema.columns) = 2
    /\ shn_file.schema.columns[1] # shn_file.schema.columns[2]
    /\ shn_file.data[1] # shn_file.data[2]
    /\ pc = "done"

\* The document of a file, as kinds and names of its events.
DocumentShape(f) ==
    LET c == Len(f.schema.columns)
        r == Len(f.data)
    IN  [i \in 1..((2 * c) + (2 * r) + 4) |->
            IF i = 1 THEN <<"StartElement", "shnfile">>
            ELSE IF i = 2 THEN <<"StartElement", "schema">>
            ELSE IF i <= (2 * c) + 2
                 THEN IF i % 2 = 1 THEN <<"StartElement", "shncolumn">>
                      ELSE <<"EndElement", None>>
            ELSE IF i = (2 * c) + 3 THEN <<"EndElement", None>>
            ELSE IF i <= (2 * c) + (2 * r) + 3
                 THEN IF i % 2 = 0 THEN <<"StartElement", "row">>
                      ELSE <<"EndElement", None>>
            ELSE <<"EndElement", None>>]

Shape(events) == [i \in 1..Len(events) |-> <<events[i].kind, events[i].name>>]

\* Number of elements open after the events.
RECURSIVE Depth(_)
Depth(events) ==
    IF events = <<>> THEN 0
    ELSE Depth(SubSeq(events, 1, Len(events) - 1))
         + (IF events[Len(events)].kind = "StartElement" THEN 1 ELSE -1)

Serializing ==
    pc \in {"write_shn_schema_to_xml", "schema_columns", "write_shn_data_to_xml", "done"}

C7_EncodingResolution ==
    \A i \in Calls("get_encoding") :
        LET name == IF trace[i].arg = "" THEN "ascii" ELSE trace[i].arg
            matches == {k \in 1..Len(encodings) : encodings[k] = name}
        IN  IF matches = {}
            THEN /\ ~trace[i].ok
                 /\ panic = "Encoding not found"
                 /\ pc = "panicked"
                 /\ "none" \in DOMAIN encoding
            ELSE /\ trace[i].ok
                 /\ "slot" \in DOMAIN encoding
                 /\ encoding.name = name
                 /\ encoding.slot \in matches
                 /\ \A k \in matches : encoding.slot <= k

C7_Witness ==
    /\ Calls("get_encoding") # {}
    /\ args["--encoding"] = ""
    /\ "slot" \in DOMAIN encoding
    /\ encoding.name = "ascii"

\* The token of each data type.
TypeTokens ==
    [t \in ShnDataType |->
        CASE t = "StringFixedLen"       -> "StringFL"
          [] t = "StringZeroTerminated" -> "StringSZ"
          [] t = "Byte"                 -> "u8"
          [] t = "SignedByte"           -> "i8"
          [] t = "UnsignedShort"        -> "u16"
          [] t = "SignedShort"          -> "i16"
          [] t = "UnsignedInteger"      -> "u32"
          [] t = "SignedInteger"        -> "i32"
          [] t = "SingleFloatingPoint"  -> "f32"]

\* C8: type_to_str maps the 9 data types one-to-one onto the 9 tokens, each
\* to its own; the shncolumn element of a column carries that token.
C8_TypeTokenBijection ==
    /\ \A t1, t2 \in ShnDataType : type_to_str(t1) = type_to_str(t2) => t1 = t2
    /\ {type_to_str(t) : t \in ShnDataType} =
          {"StringFL", "StringSZ", "u8", "i8", "u16", "i16", "u32", "i32", "f32"}
    /\ (call.fn = "write_column" /\ call.returned) =>
          /\ log[1].event.attributes[2].name = "type"
          /\ log[1].event.attributes[2].value = TypeTokens[call.arg.data_type]

C8_Witness ==
    /\ call.fn = "write_column"
    /\ call.returned
    /\ call.arg.data_type = "SingleFloatingPoint"
    /\ log[1].ok
    /\ log[1].event.attributes[2].value = "f32"

\* C9: main makes each of its calls (open_file, create_file, get_encoding,
\* read_from, write_to_xml) at most once and in this order, a failed call is
\* the last one, and after a failed create_file the decoder is never called.
C9_NoStepAfterFailure ==
    /\ \A i, j \in 1..Len(trace) : trace[i].call = trace[j].call => i = j
    /\ \A i \in 1..Len(trace) : ~trace[i].ok => (i = Len(trace) /\ pc = "panicked")
    /\ \A i \in Calls("create_file") :
          ~trace[i].ok => (Calls("read_from") = {} /\ Calls("write_to_xml") = {})
    /\ \A i \in Calls("open_file") : \A j \in Calls("create_file") : i < j
    /\ \A i \in Calls("create_file") : \A j \in Calls("get_encoding") : i < j
    /\ \A i \in Calls("get_encoding") : \A j \in Calls("read_from") : i < j
    /\ \A i \in Calls("read_from") : \A j \in Calls("write_to_xml") : i < j

C9_Witness ==
    /\ \E i \in Calls("create_file") : ~trace[i].ok
    /\ ~args["--stdout"]
    /\ pc = "panicked"
    /\ panic = "Could not create file"

\* C10: bytes_to_string returns for every byte sequence, the empty one
\* included, for which it returns the empty string.
C10_EmptyHeaderReturns ==
    (call.fn = "bytes_to_string" /\ call.returned) =>
        /\ call.result.panic = ""
        /\ call.arg = <<>> => call.result.value = <<>>

====
